---- MODULE Spec2Model ----
(***************************************************************************)
(* Model of project2/LocalValueNumbering.cpp: an LLVM new-pass-manager     *)
(* plugin whose pass body (visitor) is an empty stub.                      *)
(*                                                                         *)
(* A function is a sequence of instructions; each instruction carries the  *)
(* number of the basic block it lives in.  The plugin is loaded, its       *)
(* pipeline-parsing callback is offered the elements of a textual pass     *)
(* pipeline, and the resulting function pass manager is run over one       *)
(* function.                                                               *)
(***************************************************************************)
EXTENDS Integers, Sequences, FiniteSets, TLC

VARIABLES phase, pipeline, FPM, cb, F, Fin, optnone, PA, next, executed

vars == <<phase, pipeline, FPM, cb, F, Fin, optnone, PA, next, executed>>

(* ---------------------------------------------------------------- bounds *)

\* longest function body (instructions over all blocks, the final ret not
\* counted) handed to the pass
MaxLen == 3
\* longest textual pipeline offered to the parsing callback
MaxElems == 2
\* values are integers modulo Modulus
Modulus == 2

(* ------------------------------------------------- the IR handed to run() *)

Ext(n) == [ext |-> n, res |-> 0]
Res(i) == [ext |-> "-", res |-> i]
NoOperand == [ext |-> "-", res |-> 0]

Externals == {"a", "b"}

HasResult(ins) == ins.op \in {"add", "load"}

\* the instructions that may be appended to a function: an opcode with
\* external operands, or a store of the result of the instruction just
\* before it (usePrev), opening a new basic block or not (newBlk)
Shapes ==
  {[op |-> "add", x |-> Ext("a"), y |-> Ext("b"), usePrev |-> FALSE],
   [op |-> "add", x |-> Ext("b"), y |-> Ext("a"), usePrev |-> FALSE],
   [op |-> "load", x |-> Ext("p"), y |-> NoOperand, usePrev |-> FALSE],
   [op |-> "store", x |-> Ext("a"), y |-> Ext("p"), usePrev |-> FALSE],
   [op |-> "store", x |-> NoOperand, y |-> Ext("p"), usePrev |-> TRUE]}

Choices == Shapes \X BOOLEAN

\* a function is written down as the sequence of choices that builds it;
\* well-formed: the first instruction opens no second block, and only an
\* instruction with a result can be used
WellFormed(cs) ==
  \A i \in 1..Len(cs) :
    /\ cs[i][2] => i > 1
    /\ cs[i][1].usePrev => (i > 1 /\ cs[i - 1][1].op # "store")

Extend(f, c) ==
  Append(f, [id  |-> Len(f) + 1,
             blk |-> IF Len(f) = 0 THEN 1
                     ELSE IF c[2] THEN f[Len(f)].blk + 1 ELSE f[Len(f)].blk,
             op  |-> c[1].op,
             x   |-> IF c[1].usePrev THEN Res(f[Len(f)].id) ELSE c[1].x,
             y   |-> c[1].y])

RECURSIVE BuildFrom(_, _)
BuildFrom(cs, n) == IF n = 0 THEN <<>> ELSE Extend(BuildFrom(cs, n - 1), cs[n])

\* the operand a function returns: its last result, or the argument a
Returned(body) ==
  LET rs == {i \in 1..Len(body) : HasResult(body[i])}
  IN  IF rs = {} THEN Ext("a")
      ELSE Res(body[CHOOSE i \in rs : \A j \in rs : j <= i].id)

\* every function ends with a ret, the terminator of its last block
Build(cs) ==
  LET body == BuildFrom(cs, Len(cs))
  IN  Append(body, [id  |-> Len(body) + 1,
                    blk |-> IF Len(body) = 0 THEN 1 ELSE body[Len(body)].blk,
                    op  |-> "ret",
                    x   |-> Returned(body),
                    y   |-> NoOperand])

Ids(f) == {f[i].id : i \in 1..Len(f)}

InstrOf(f, i) == CHOOSE ins \in {f[k] : k \in 1..Len(f)} : ins.id = i

(* ------------------------------------------------------------ the plugin *)

\* a value-numbering walk over f; used only to state what a wrong visitor
\* would do.  opts: commute (sort operands of add), invalidate (a store drops
\* the load entries), perBlock (fresh table per block), numberStores (stores
\* are entered into the table), oneShot (stop after the first elimination)
OperandRank(o) ==
  IF o.res > 0 THEN 3 + o.res
  ELSE CASE o.ext = "a" -> 1 [] o.ext = "b" -> 2 [] o.ext = "p" -> 3 [] OTHER -> 0

CanonicalKey(ins, commute) ==
  IF commute /\ ins.op = "add" /\ OperandRank(ins.y) < OperandRank(ins.x)
  THEN [op |-> ins.op, x |-> ins.y, y |-> ins.x]
  ELSE [op |-> ins.op, x |-> ins.x, y |-> ins.y]

Redirected(o, redir) ==
  IF \E p \in redir : p[1] = o.res
  THEN Res((CHOOSE p \in redir : p[1] = o.res)[2])
  ELSE o

NumberingStep(st, ins0, opts) ==
  LET ins  == [ins0 EXCEPT !.x = Redirected(ins0.x, st.redir),
                           !.y = Redirected(ins0.y, st.redir)]
      tbl0 == IF opts.perBlock /\ ins.blk # st.blk THEN {} ELSE st.table
      tbl1 == IF ins.op = "store" /\ opts.invalidate
              THEN {e \in tbl0 : e.key.op # "load"} ELSE tbl0
      key  == CanonicalKey(ins, opts.commute)
      hit  == {e \in tbl0 : e.key = key}
      may  == ~opts.oneShot \/ st.redir = {}
  IN  IF ins.op = "ret" \/ (ins.op = "store" /\ ~opts.numberStores)
      THEN [st EXCEPT !.out = Append(@, ins), !.table = tbl1, !.blk = ins.blk]
      ELSE IF hit # {} /\ may
      THEN [st EXCEPT !.redir = @ \cup {<<ins.id, (CHOOSE e \in hit : TRUE).id>>},
                      !.table = tbl1, !.blk = ins.blk]
      ELSE [st EXCEPT !.out = Append(@, ins),
                      !.table = IF hit = {} THEN tbl1 \cup {[key |-> key, id |-> ins.id]}
                                ELSE tbl1,
                      !.blk = ins.blk]

RECURSIVE NumberingWalk(_, _, _, _)
NumberingWalk(f, i, st, opts) ==
  IF i > Len(f) THEN st.out
  ELSE NumberingWalk(f, i + 1, NumberingStep(st, f[i], opts), opts)

Numbering(f, opts) ==
  NumberingWalk(f, 1, [out |-> <<>>, table |-> {}, redir |-> {}, blk |-> 0], opts)

Sound == [commute |-> TRUE, invalidate |-> TRUE, perBlock |-> TRUE,
          numberStores |-> FALSE, oneShot |-> FALSE]

visitor_NoInvalidate(Fn) == Numbering(Fn, [Sound EXCEPT !.invalidate = FALSE])
visitor_GlobalTable(Fn)  == Numbering(Fn, [Sound EXCEPT !.perBlock = FALSE])
visitor_NumberStores(Fn) == Numbering(Fn, [Sound EXCEPT !.numberStores = TRUE])
visitor_OneShot(Fn)      == Numbering(Fn, [Sound EXCEPT !.oneShot = TRUE])

\* void visitor(Function &F) { /* TODO */ }: the function is left as it was
visitor(Fn) == Fn

run_ReturnsNone(Fn) == [fn |-> visitor(Fn), pa |-> "none"]
run_ReturnsCFG(Fn) == [fn |-> visitor(Fn), pa |-> "cfg"]

\* PreservedAnalyses run(Function &F, ...): visitor(F); return all()
run(Fn) == [fn |-> visitor(Fn), pa |-> "all"]

isRequired_False == FALSE

\* static bool isRequired() { return true; }
isRequired == TRUE

PassName == "local-value-numbering"

ParsingCallback_AnyName(Name, fpm) ==
  [fpm |-> Append(fpm, "LocalValueNumbering"), ret |-> TRUE]

\* the lambda handed to registerPipelineParsingCallback
ParsingCallback(Name, fpm) ==
  IF Name = PassName
  THEN [fpm |-> Append(fpm, "LocalValueNumbering"), ret |-> TRUE]
  ELSE [fpm |-> fpm, ret |-> FALSE]

(* ------------------------------------------------------------- the host *)

\* pipeline element names the host may offer to the callback
Names == {"local-value-numbering", "lvn", "instcombine"}

RECURSIVE SeqsOfLen(_, _)
SeqsOfLen(S, n) ==
  IF n = 0 THEN {<<>>}
  ELSE {Append(q, e) : q \in SeqsOfLen(S, n - 1), e \in S}

Pipelines == UNION {SeqsOfLen(Names, n) : n \in 0..MaxElems}

NoCall == [called |-> FALSE, name |-> "-", ret |-> FALSE, before |-> <<>>]

Init ==
  /\ phase = "load"
  /\ pipeline \in Pipelines
  /\ FPM = <<>>
  /\ cb = NoCall
  /\ F = <<>>
  /\ Fin = <<>>
  /\ optnone = FALSE
  /\ PA = "unset"
  /\ next = 1
  /\ executed = 0

\* opt loads the plugin: llvmGetPassPluginInfo() hands back the
\* RegisterPassBuilderCallbacks hook, which registers the parsing callback
LoadPlugin ==
  /\ phase = "load"
  /\ phase' = "parse"
  /\ UNCHANGED <<pipeline, FPM, cb, F, Fin, optnone, PA, next, executed>>

\* the host offers the next pipeline element to the registered callback
ParsePipelineElement ==
  /\ phase = "parse"
  /\ pipeline # <<>>
  /\ LET r == ParsingCallback(Head(pipeline), FPM)
     IN  /\ FPM' = r.fpm
         /\ cb' = [called |-> TRUE, name |-> Head(pipeline), ret |-> r.ret,
                   before |-> FPM]
  /\ pipeline' = Tail(pipeline)
  /\ UNCHANGED <<phase, F, Fin, optnone, PA, next, executed>>

\* the pipeline text is exhausted; the pass manager is ready to run
EndParse ==
  /\ phase = "parse"
  /\ pipeline = <<>>
  /\ phase' = "run"
  /\ cb' = NoCall
  /\ UNCHANGED <<pipeline, FPM, F, Fin, optnone, PA, next, executed>>

\* one pass of the function pass manager over Fn: a pass that is not
\* required is skipped on an optnone function, otherwise run() is invoked
RunOrSkip(Fn, on) ==
  /\ optnone' = on
  /\ Fin' = Fn
  /\ IF isRequired \/ ~on
     THEN LET r == run(Fn)
          IN  /\ F' = r.fn
              /\ PA' = r.pa
              /\ executed' = executed + 1
     ELSE /\ F' = Fn
          /\ UNCHANGED <<PA, executed>>

\* the function pass manager takes its next pass; the first pass is handed
\* the function the host compiles, each later pass what its predecessor left
PassManagerStep ==
  /\ phase = "run"
  /\ next <= Len(FPM)
  /\ \/ /\ next = 1
        /\ \E n \in 0..MaxLen : \E cs \in [1..n -> Choices] : \E on \in BOOLEAN :
             WellFormed(cs) /\ RunOrSkip(Build(cs), on)
     \/ /\ next > 1
        /\ RunOrSkip(F, optnone)
  /\ next' = next + 1
  /\ UNCHANGED <<phase, pipeline, FPM, cb>>

Next ==
  \/ LoadPlugin
  \/ ParsePipelineElement
  \/ EndParse
  \/ PassManagerStep

Spec == Init /\ [][Next]_vars

(* ------------------------------------------- what a function computes *)

\* assignments to the external inputs and to the initial memory cell at p
Values == 0..(Modulus - 1)
Envs == [a : Values, b : Values, p : Values]

OperandValue(o, env, vals) ==
  IF o.res > 0 THEN vals[o.res]
  ELSE IF o.ext = "a" THEN env.a ELSE env.b

ExecStep(st, ins, env) ==
  CASE ins.op = "add" ->
         [st EXCEPT !.vals = (ins.id :> ((OperandValue(ins.x, env, st.vals)
                                          + OperandValue(ins.y, env, st.vals)) % Modulus)) @@ @]
    [] ins.op = "load" ->
         [st EXCEPT !.vals = (ins.id :> st.mem) @@ @]
    [] ins.op = "store" ->
         [st EXCEPT !.mem = OperandValue(ins.x, env, st.vals),
                    !.trace = Append(@, OperandValue(ins.x, env, st.vals))]
    [] ins.op = "ret" ->
         [st EXCEPT !.ret = <<OperandValue(ins.x, env, st.vals)>>]

RECURSIVE ExecFrom(_, _, _, _)
ExecFrom(f, i, st, env) ==
  IF i > Len(f) THEN st ELSE ExecFrom(f, i + 1, ExecStep(st, f[i], env), env)

\* result values, final memory, the sequence of stored values and the
\* returned value
Exec(f, env) ==
  ExecFrom(f, 1, [vals |-> <<>>, mem |-> env.p, trace |-> <<>>, ret |-> <<>>], env)

(* ------------------------------------------------------ reading a run *)

\* run() has returned at least once: Fin is what the last run was handed,
\* F what it left behind, PA what it reported
Ran == phase = "run" /\ executed > 0

Eliminated == Ids(Fin) \ Ids(F)

Kept == Ids(Fin) \cap Ids(F)

IsStore(ins) == ins.op = "store"

\* no surviving instruction that used the result of k uses anything else now
UsesKept(k) ==
  \A i \in Kept :
    /\ InstrOf(Fin, i).x = Res(k) => InstrOf(F, i).x = Res(k)
    /\ InstrOf(Fin, i).y = Res(k) => InstrOf(F, i).y = Res(k)

\* every surviving instruction that used the result of k now uses that of m
UsesRedirected(k, m) ==
  /\ \A i \in 1..Len(F) : F[i].x # Res(k) /\ F[i].y # Res(k)
  /\ \A i \in Kept :
       /\ InstrOf(Fin, i).x = Res(k) => InstrOf(F, i).x = Res(m)
       /\ InstrOf(Fin, i).y = Res(k) => InstrOf(F, i).y = Res(m)

\* positions i < j of Fin hold adds of the same two operands, in one block
CommutativePair(i, j) ==
  /\ i < j
  /\ Fin[i].op = "add" /\ Fin[j].op = "add"
  /\ Fin[i].blk = Fin[j].blk
  /\ {Fin[i].x, Fin[i].y} = {Fin[j].x, Fin[j].y}

\* positions i < j < k of Fin: load p; store _, p; load p with no load of p
\* between the store and the second load, all in one block
LoadStoreLoad(i, j, k) ==
  /\ i < j /\ j < k
  /\ Fin[i].op = "load" /\ Fin[j].op = "store" /\ Fin[k].op = "load"
  /\ Fin[i].blk = Fin[k].blk
  /\ \A m \in (j + 1)..(k - 1) : Fin[m].op # "load"

Positions == 1..Len(Fin)

(* ---------------------------------------------------------------- claims *)

\* C1: when a run eliminated no instruction it reports all analyses
\* preserved; when it eliminated at least one it reports CFG-only
C1_PreservedReporting ==
  Ran => /\ (Eliminated = {} => PA = "all")
         /\ (Eliminated # {} => PA = "cfg")

C1_Witness == Ran /\ Len(Fin) > 2 /\ Eliminated = {} /\ PA = "all"

\* C2: of two adds of the same operands in one block the later one is
\* removed, the earliest is retained and every use of the later one refers
\* to the earliest
C2_CommutativeFolding ==
  Ran => \A i, j \in Positions :
           (CommutativePair(i, j) /\ ~\E h \in Positions : CommutativePair(h, i))
             => /\ Fin[j].id \in Eliminated
                /\ Fin[i].id \in Kept
                /\ UsesRedirected(Fin[j].id, Fin[i].id)

\* C3: a load that follows a store to p is not eliminated in favour of a
\* load made before that store, and its uses are not redirected
C3_SideEffectIsolation ==
  Ran => \A i, j, k \in Positions :
           LoadStoreLoad(i, j, k) => Fin[k].id \in Kept /\ UsesKept(Fin[k].id)

C3_Witness ==
  Ran /\ \E i, j, k \in Positions :
           /\ LoadStoreLoad(i, j, k)
           /\ Fin[k].id \in Kept
           /\ \E u \in Kept : InstrOf(F, u).x = Res(Fin[k].id)

\* C4: an instruction is eliminated only in favour of an earlier surviving
\* instruction of its own block, and every operand the pass rewrote names a
\* result defined earlier in the block of the result it replaced
C4_NoCrossBlockFolding ==
  Ran => /\ \A k \in Positions :
              Fin[k].id \in Eliminated =>
                \E m \in 1..(k - 1) : /\ Fin[m].blk = Fin[k].blk
                                      /\ Fin[m].op = Fin[k].op
                                      /\ Fin[m].id \in Kept
         /\ \A i \in Kept :
              LET old == InstrOf(Fin, i)
                  new == InstrOf(F, i)
                  Local(o, n) ==
                    o = n \/ /\ o.res > 0 /\ n.res > 0 /\ n.res < o.res
                             /\ n.res \in Ids(Fin)
                             /\ InstrOf(Fin, n.res).blk = InstrOf(Fin, o.res).blk
              IN  Local(old.x, new.x) /\ Local(old.y, new.y)

C4_Witness ==
  Ran /\ \E i, j \in Positions :
           /\ i < j
           /\ Fin[i].blk # Fin[j].blk
           /\ HasResult(Fin[i])
           /\ CanonicalKey(Fin[i], TRUE) = CanonicalKey(Fin[j], TRUE)
           /\ Fin[i].id \in Kept /\ Fin[j].id \in Kept

\* C5: for every assignment to the inputs and the initial memory the
\* function left by the pass stores the same values in the same order, ends
\* with the same memory, returns the same value, gives every surviving
\* result the value it had, and every operand it rewrote has the value of
\* the operand it replaced
C5_Soundness ==
  Ran => \A env \in Envs :
           \A o \in {Exec(Fin, env)} : \A t \in {Exec(F, env)} :
             /\ t.trace = o.trace
             /\ t.mem = o.mem
             /\ t.ret = o.ret
             /\ \A k \in 1..Len(F) :
                  \A new \in {F[k]} : \A old \in {InstrOf(Fin, new.id)} :
                    /\ HasResult(new) => t.vals[new.id] = o.vals[new.id]
                    /\ new.x.res > 0 => t.vals[new.x.res] = o.vals[old.x.res]
                    /\ new.y.res > 0 => t.vals[new.y.res] = o.vals[old.y.res]

C5_Witness ==
  Ran /\ \E i, j, k \in Positions :
           /\ LoadStoreLoad(i, j, k)
           /\ \E u \in Kept : InstrOf(F, u).x = Res(Fin[k].id)
           /\ \E env \in Envs : Exec(F, env).vals[Fin[k].id] # Exec(F, env).vals[Fin[i].id]

\* C6: a second run over the output of a first run leaves the function as
\* it found it, eliminates nothing and reports all analyses preserved
C6_Idempotence ==
  (Ran /\ executed > 1) => F = Fin /\ Eliminated = {} /\ PA = "all"

C6_Witness ==
  Ran /\ executed > 1 /\ F = Fin
      /\ \E i, j \in Positions : CommutativePair(i, j)

\* C7: isRequired() is true, and the pass manager has run the pass once for
\* every pass it has taken, also on an optnone function
C7_Required ==
  (phase = "run" /\ next > 1) => isRequired /\ executed = next - 1

C7_Witness == phase = "run" /\ optnone /\ next > 1 /\ executed = next - 1

\* C8: the parsing callback returns true exactly for the name
\* "local-value-numbering", then having appended one LocalValueNumbering
\* pass to the pass manager; for any other name the pass manager is as before
C8_Registration ==
  cb.called =>
    /\ cb.ret = (cb.name = "local-value-numbering")
    /\ FPM = IF cb.name = "local-value-numbering"
             THEN Append(cb.before, "LocalValueNumbering")
             ELSE cb.before

C8_Witness ==
  /\ cb.called /\ cb.ret /\ cb.name = "local-value-numbering"
  /\ Len(FPM) = Len(cb.before) + 1

\* C9 as stated: every run reports that no analyses are preserved
C9_ReportsNone == Ran => PA = "none"

\* C9 as amended: every run reports that all analyses are preserved
C9_ReportsAll == Ran => PA = "all"

C9_Witness ==
  Ran /\ PA = "all" /\ \E i, j, k \in Positions : LoadStoreLoad(i, j, k)

\* C10: the stores of the input are all still there, unchanged and in their
\* original order; none is eliminated, so two identical stores are both kept
C10_SideEffectsKept ==
  Ran => /\ SelectSeq(F, IsStore) = SelectSeq(Fin, IsStore)
         /\ \A k \in Positions : Fin[k].op = "store" => Fin[k].id \in Kept

C10_Witness ==
  Ran /\ \E i, j \in Positions :
           /\ i < j
           /\ Fin[i].op = "store" /\ Fin[j].op = "store"
           /\ Fin[i].blk = Fin[j].blk
           /\ Fin[i].x = Fin[j].x
           /\ Fin[i].id \in Kept /\ Fin[j].id \in Kept

====
